---- MODULE Spec2Model ----
(***************************************************************************)
(* MeanReversionSMAModification.py: a weekly long/short strategy on the    *)
(* Quantopian platform.  make_pipeline builds a per-day composite score    *)
(* (sentiment ratio x return z-score x trend ratio) screened to the        *)
(* extreme return quartiles, before_trading_start stages the cleaned       *)
(* score column in the context, and rebalance submits a MaximizeAlpha      *)
(* objective on the negated scores with three constraints.                 *)
(*                                                                         *)
(* Floating point values are modelled exactly: a value is NaN, +inf, -inf  *)
(* or the finite number (n/d) * sqrt(rn/rd).  The square root part is      *)
(* needed only for the z-score (division by a standard deviation).         *)
(* Rounding, overflow to infinity and the sign of zero are not modelled.   *)
(***************************************************************************)
EXTENDS Integers, Sequences, FiniteSets, TLC

\* An array holds computed values: f @@ <<>> is f itself, with every entry
\* evaluated once instead of at each use.
Array(f) == f @@ <<>>

(***************************************************************************)
(* Extended numbers (numpy float64 with NaN and +-inf)                     *)
(***************************************************************************)
Sgn(x) == IF x > 0 THEN 1 ELSE IF x < 0 THEN -1 ELSE 0

Abs(x) == IF x < 0 THEN -x ELSE x

RECURSIVE GCD(_, _)
GCD(a, b) == IF b = 0 THEN a ELSE GCD(b, a % b)

NaN == [k |-> "nan", n |-> 0, d |-> 1, rn |-> 1, rd |-> 1]

Inf(s) == [k |-> "inf", n |-> s, d |-> 1, rn |-> 1, rd |-> 1]

\* The largest j with j * j dividing x (searched upward from i), x > 0.
RECURSIVE SquarePart(_, _, _)
SquarePart(x, i, best) ==
    IF i * i > x THEN best
    ELSE SquarePart(x, i + 1, IF x % (i * i) = 0 THEN i ELSE best)

\* The finite number (n/d) * sqrt(rn/rd), d # 0, rn > 0, rd > 0, in canonical
\* form: n/d in lowest terms, d > 0, rn and rd coprime and square-free.
Num(n, d, rn, rd) ==
    IF n = 0 THEN [k |-> "fin", n |-> 0, d |-> 1, rn |-> 1, rd |-> 1]
    ELSE LET h == GCD(rn, rd)
             un == SquarePart(rn \div h, 1, 1)
             ud == SquarePart(rd \div h, 1, 1)
             nn == n * un
             dd == d * ud
             g == GCD(Abs(nn), Abs(dd))
         IN  [k |-> "fin", n |-> (Sgn(dd) * nn) \div g, d |-> Abs(dd) \div g,
              rn |-> (rn \div h) \div (un * un), rd |-> (rd \div h) \div (ud * ud)]

Float(i) == Num(i, 1, 1, 1)

IsNaN(a) == a.k = "nan"

IsInf(a) == a.k = "inf"

IsFinite(a) == a.k = "fin"

IsZero(a) == a.k = "fin" /\ a.n = 0

Sign(a) == Sgn(a.n)

Neg(a) == [a EXCEPT !.n = -a.n]

\* IEEE multiplication: NaN is contagious, inf * 0 = NaN.
Mul(a, b) ==
    IF IsNaN(a) \/ IsNaN(b) THEN NaN
    ELSE IF IsInf(a) \/ IsInf(b)
         THEN IF IsZero(a) \/ IsZero(b) THEN NaN ELSE Inf(Sign(a) * Sign(b))
    ELSE Num(a.n * b.n, a.d * b.d, a.rn * b.rn, a.rd * b.rd)

\* IEEE division: x/0 = +-inf for x # 0, 0/0 = NaN, inf/inf = NaN.
Div(a, b) ==
    IF IsNaN(a) \/ IsNaN(b) THEN NaN
    ELSE IF IsInf(a) THEN (IF IsInf(b) THEN NaN
                           ELSE Inf(Sign(a) * (IF Sign(b) < 0 THEN -1 ELSE 1)))
    ELSE IF IsInf(b) THEN Float(0)
    ELSE IF IsZero(b) THEN (IF IsZero(a) THEN NaN ELSE Inf(Sign(a)))
    ELSE Num(a.n * b.d, a.d * b.n, a.rn * b.rd, a.rd * b.rn)

\* Subtraction of finite rationals (no square-root part), NaN contagious.
Sub(a, b) ==
    IF IsNaN(a) \/ IsNaN(b) THEN NaN
    ELSE Num(a.n * b.d - b.n * a.d, a.d * b.d, 1, 1)

Add(a, b) == Sub(a, Neg(b))

\* Square root of a non-negative finite rational.
Sqrt(a) == IF IsNaN(a) THEN NaN ELSE IF a.n = 0 THEN a ELSE Num(1, 1, a.n, a.d)

\* a < b on non-NaN values.  Finite values with the same square-root part
\* compare by their rational parts, others by sign and square.
Less(a, b) ==
    IF IsInf(a) THEN a.n < 0 /\ ~(IsInf(b) /\ b.n < 0)
    ELSE IF IsInf(b) THEN b.n > 0
    ELSE IF Sign(a) # Sign(b) THEN Sign(a) < Sign(b)
    ELSE IF Sign(a) = 0 THEN FALSE
    ELSE IF a.rn = b.rn /\ a.rd = b.rd THEN a.n * b.d < b.n * a.d
    ELSE LET sa == a.n * a.n * a.rn * b.d * b.d * b.rd
             sb == b.n * b.n * b.rn * a.d * a.d * a.rd
         IN  IF Sign(a) > 0 THEN sa < sb ELSE sb < sa

Leq(a, b) == ~Less(b, a)

RECURSIVE SumOver(_, _)
SumOver(S, f) ==
    IF S = {} THEN Float(0)
    ELSE LET s == CHOOSE x \in S : TRUE IN Add(f[s], SumOver(S \ {s}, f))

(***************************************************************************)
(* Platform factor methods used by make_pipeline.  A row maps each         *)
(* security of the day's universe to an extended number.                   *)
(***************************************************************************)
NonNaN(row) == {s \in DOMAIN row : ~IsNaN(row[s])}

\* numpy argsort position (0-based) of entry s among the non-NaN entries;
\* equal values are ordered by security id.
ArgsortPos(row, s) ==
    Cardinality({t \in NonNaN(row) :
        Less(row[t], row[s]) \/ (row[t] = row[s] /\ t < s)})

\* The k-th (0-based) smallest non-NaN value of the row.
SortedAt(row, k) == row[CHOOSE s \in NonNaN(row) : ArgsortPos(row, s) = k]

\* Factor.winsorize(min_percentile, max_percentile), percentiles in percent:
\* the entries sorted below int(min * nonnan_count) take the value at that
\* position, the non-NaN entries at or above ceil(nonnan_count * max) take
\* the value just below that position; NaN entries stay NaN.
winsorize(row, min_percentile, max_percentile) ==
    LET nonnan_count == Cardinality(NonNaN(row))
        lower_cutoff == (min_percentile * nonnan_count) \div 100
        upper_cutoff == (nonnan_count * max_percentile + 99) \div 100
        lower_value == SortedAt(row, lower_cutoff)
        lowered == [s \in DOMAIN row |->
                       IF /\ ~IsNaN(row[s])
                          /\ min_percentile > 0
                          /\ ArgsortPos(row, s) < lower_cutoff
                       THEN lower_value ELSE row[s]]
        upper_value == lowered[CHOOSE t \in NonNaN(row) :
                                   ArgsortPos(row, t) = upper_cutoff - 1]
    IN  Array([s \in DOMAIN row |->
                  IF /\ ~IsNaN(row[s])
                     /\ max_percentile < 100
                     /\ upper_cutoff < nonnan_count
                     /\ ArgsortPos(row, s) >= upper_cutoff
                  THEN upper_value ELSE lowered[s]])

\* Factor.zscore(): (row - nanmean(row)) / nanstd(row), population deviation.
\* Returns are integers (basis points) or NaN.
zscore(row) ==
    LET valid == NonNaN(row)
        count == Cardinality(valid)
        nanmean == IF count = 0 THEN NaN ELSE Div(SumOver(valid, row), Float(count))
        sqdev == [s \in valid |-> Mul(Sub(row[s], nanmean), Sub(row[s], nanmean))]
        nanstd == IF count = 0 THEN NaN
                  ELSE Sqrt(Div(SumOver(valid, sqdev), Float(count)))
    IN  Array([s \in DOMAIN row |-> Div(Sub(row[s], nanmean), nanstd)])

\* numpy nanpercentile(row, q) with linear interpolation between the two
\* nearest ranks; NaN when every entry is NaN.
nanpercentile(row, q) ==
    LET count == Cardinality(NonNaN(row))
        k == (q * (count - 1)) \div 100
        f == (q * (count - 1)) % 100
        a == SortedAt(row, k)
        b == SortedAt(row, k + 1)
        r == IF a.n # 0 THEN a ELSE b
    IN  IF count = 0 THEN NaN
        ELSE IF f = 0 THEN a
        ELSE Num(a.n * b.d * (100 - f) + b.n * a.d * f, 100 * a.d * b.d, r.rn, r.rd)

\* Factor.percentile_between(min, max, mask): the securities whose value lies
\* between the two percentile values, both ends included; NaN entries and
\* securities outside the mask never qualify.
percentile_between(row, min_percentile, max_percentile, mask) ==
    LET data == [s \in mask |-> row[s]]
        lower_bound == nanpercentile(data, min_percentile)
        upper_bound == nanpercentile(data, max_percentile)
    IN  {s \in mask : /\ ~IsNaN(data[s])
                      /\ ~IsNaN(lower_bound)
                      /\ Leq(lower_bound, data[s])
                      /\ Leq(data[s], upper_bound)}

(***************************************************************************)
(* make_pipeline.  data is the day's raw factor table: for each security   *)
(* of QTradableStocksUS the five platform factor values (each a float or   *)
(* NaN when the platform has no value).                                    *)
(***************************************************************************)
universe(data) == DOMAIN data

mean_close_50(data) == [s \in universe(data) |-> data[s].close50]

mean_close_200(data) == [s \in universe(data) |-> data[s].close200]

mean_average_multiplier(data) ==
    Array([s \in universe(data) |-> Div(mean_close_200(data)[s], mean_close_50(data)[s])])

bull_m_bear(data) == [s \in universe(data) |-> data[s].bull_minus_bear]

total_messages(data) == [s \in universe(data) |-> data[s].total_scanned_messages]

\* A ratio that counts as 1.0 when the bull-minus-bear average is zero.
sentiment_score_coerced(data) ==
    Array([s \in universe(data) |->
              IF IsZero(bull_m_bear(data)[s]) THEN Float(1)
              ELSE Div(total_messages(data)[s], bull_m_bear(data)[s])])

sentiment_score(data) ==
    Array([s \in universe(data) |-> Div(total_messages(data)[s], bull_m_bear(data)[s])])

sentiment_score_winsorized(data) == winsorize(sentiment_score(data), 1, 95)

recent_returns(data) == [s \in universe(data) |-> data[s].returns]

recent_returns_zscore(data) == zscore(recent_returns(data))

low_returns(data) ==
    percentile_between(recent_returns_zscore(data), 0, 25, universe(data))

high_returns(data) ==
    percentile_between(recent_returns_zscore(data), 75, 100, universe(data))

\* A screen that keeps the low band only.
securities_to_trade_low_only(data) == low_returns(data) \cap universe(data)

securities_to_trade(data) ==
    (low_returns(data) \cup high_returns(data)) \cap universe(data)

\* A score that leaves out the trend ratio.
total_score_no_trend(data) ==
    LET sent == sentiment_score_winsorized(data)
        z == recent_returns_zscore(data)
    IN  Array([s \in universe(data) |-> Mul(sent[s], z[s])])

total_score(data) ==
    LET sent == sentiment_score_winsorized(data)
        z == recent_returns_zscore(data)
        mam == mean_average_multiplier(data)
    IN  Array([s \in universe(data) |-> Mul(Mul(sent[s], z[s]), mam[s])])

\* A pipeline without its screen: one row per security of the universe.
make_pipeline_unscreened(data) ==
    LET column == total_score(data)
    IN  [s \in universe(data) |-> [total_score |-> column[s]]]

\* The pipeline's output frame: one row per screened security, one column.
make_pipeline(data) ==
    LET column == total_score(data)
    IN  [s \in securities_to_trade(data) |-> [total_score |-> column[s]]]

(***************************************************************************)
(* pandas operations used by before_trading_start                          *)
(***************************************************************************)
\* DataFrame.fillna(value): every NaN cell of the frame becomes value.
fillna(frame, value) ==
    [s \in DOMAIN frame |->
        [total_score |-> IF IsNaN(frame[s].total_score) THEN value
                         ELSE frame[s].total_score]]

\* A replace that misses -inf.
replace_positive_only(series, value) ==
    [s \in DOMAIN series |->
        IF IsInf(series[s]) /\ Sign(series[s]) > 0 THEN value ELSE series[s]]

\* Series.replace([np.inf, -np.inf], value).
replace(series, value) ==
    [s \in DOMAIN series |-> IF IsInf(series[s]) THEN value ELSE series[s]]

\* frame['total_score']
Column(frame) == [s \in DOMAIN frame |-> frame[s].total_score]

(***************************************************************************)
(* quantopian.optimize: weights are in thousandths of the portfolio value. *)
(***************************************************************************)
MAX_GROSS_EXPOSURE == 1000

MAX_POSITION_CONCENTRATION == 25

MaximizeAlpha(alphas) == [kind |-> "MaximizeAlpha", alphas |-> alphas]

MaxGrossExposure(max) == [kind |-> "MaxGrossExposure", min |-> 0, max |-> max]

PositionConcentration(min, max) ==
    [kind |-> "PositionConcentration", min |-> min, max |-> max]

DollarNeutral == [kind |-> "DollarNeutral", min |-> 0, max |-> 0]

RECURSIVE SumInt(_, _)
SumInt(S, f) ==
    IF S = {} THEN 0
    ELSE LET s == CHOOSE x \in S : TRUE IN f[s] + SumInt(S \ {s}, f)

\* Whether the weight mapping w meets one constraint.
Satisfies(w, c) ==
    CASE c.kind = "MaxGrossExposure" ->
            SumInt(DOMAIN w, [s \in DOMAIN w |-> Abs(w[s])]) <= c.max
      [] c.kind = "PositionConcentration" ->
            \A s \in DOMAIN w : c.min <= w[s] /\ w[s] <= c.max
      [] c.kind = "DollarNeutral" ->
            SumInt(DOMAIN w, w) = 0

\* The weights the solver may be asked about, in thousandths: a grid that
\* reaches beyond the concentration bound on both sides.
WeightGrid == {-50, -25, 0, 25, 50}

Feasible(assets, cons) ==
    {w \in [assets -> WeightGrid] : \A i \in 1..Len(cons) : Satisfies(w, cons[i])}

\* sum of w[s] * alphas[s] as p * sqrt(R) + q: p collects the alphas that carry
\* the day's square-root part R, q the rational ones.
Rational(a) == Num(a.n, a.d, 1, 1)

HasRoot(a) == a.rn # 1 \/ a.rd # 1

AlphaParts(w, alphas) ==
    LET roots == {s \in DOMAIN w : HasRoot(alphas[s])}
        term == [s \in DOMAIN w |-> Mul(Float(w[s]), Rational(alphas[s]))]
    IN  [p |-> SumOver(roots, term), q |-> SumOver(DOMAIN w \ roots, term)]

\* The sign of p * sqrt(rn/rd) + q for rationals p and q.
SurdSign(p, q, rn, rd) ==
    IF Sign(p) = 0 THEN Sign(q)
    ELSE IF Sign(q) = 0 \/ Sign(q) = Sign(p) THEN Sign(p)
    ELSE LET lhs == p.n * p.n * rn * q.d * q.d
             rhs == q.n * q.n * rd * p.d * p.d
         IN  IF lhs > rhs THEN Sign(p) ELSE IF lhs < rhs THEN Sign(q) ELSE 0

\* The square-root part the alphas of one day share (1 when all are rational).
Root(alphas) ==
    LET rooted == {s \in DOMAIN alphas : HasRoot(alphas[s])}
    IN  IF rooted = {} THEN Float(1) ELSE alphas[CHOOSE s \in rooted : TRUE]

\* Whether the total alpha a1 is strictly larger than a2.
MoreAlpha(a1, a2, root) ==
    SurdSign(Sub(a1.p, a2.p), Sub(a1.q, a2.q), root.rn, root.rd) > 0

\* calculate_optimal_portfolio: the feasible weight mappings of largest alpha.
Optimal(obj, cons) ==
    LET scored == {[w |-> w, alpha |-> AlphaParts(w, obj.alphas)] :
                        w \in Feasible(DOMAIN obj.alphas, cons)}
        root == Root(obj.alphas)
    IN  {x.w : x \in {y \in scored :
                        \A z \in scored : ~MoreAlpha(z.alpha, y.alpha, root)}}

(***************************************************************************)
(* The pipeline input the platform hands over each trading day.            *)
(***************************************************************************)
Row(c50, c200, bmb, msgs, ret) ==
    [close50 |-> c50, close200 |-> c200, bull_minus_bear |-> bmb,
     total_scanned_messages |-> msgs, returns |-> ret]

\* The factor rows a security may show on a day: two ordinary rows (one with
\* a falling, one with a rising price), a zero bull-minus-bear average, a
\* missing 200-day average, and a zero 50-day average.
Profiles ==
    { Row(Float(10), Float(12), Float(2), Float(6), Float(-4)),
      Row(Float(8), Float(4), Float(3), Float(6), Float(4)),
      Row(Float(10), Float(12), Float(0), Float(6), Float(4)),
      Row(Float(10), NaN, Float(-3), Float(6), Float(1)),
      Row(Float(0), Float(12), Float(2), Float(6), Float(-1)) }

\* Largest number of securities whose rows vary freely.
MaxUniverse == 3

\* Size of a wide universe, large enough for winsorize to clip its top end.
WideUniverse == 20

\* Number of securities of a wide universe whose rows vary freely; the others
\* have no return yet and an ordinary sentiment ratio.
WideFree == 2

CrowdRow == Row(Float(10), Float(12), Float(3), Float(6), NaN)

\* The section 8 scenario: four securities, returns in the ratio of the
\* z-scores -2.0, -0.5, 0.5, 2.0.
QuartileScenario ==
    [s \in 1..4 |-> Row(Float(10), Float(12), Float(2), Float(6),
                        Float(CASE s = 1 -> -4 [] s = 2 -> -1 [] s = 3 -> 1 [] s = 4 -> 4))]

WithCrowd(data) ==
    [s \in 1..WideUniverse |-> IF s \in DOMAIN data THEN data[s] ELSE CrowdRow]

SmallTables == UNION {[1..n -> Profiles] : n \in 1..MaxUniverse}

DayTables ==
    SmallTables \cup {WithCrowd(d) : d \in [1..WideFree -> Profiles]}
                \cup {QuartileScenario}

(***************************************************************************)
(* State                                                                   *)
(***************************************************************************)
VARIABLES
    pc,             \* where the host is in its callback cycle
    schedule,       \* functions registered with algo.schedule_function
    pipelines,      \* pipelines attached with algo.attach_pipeline
    week_start,     \* whether today is the first trading day of its week
    minute,         \* minutes since the market opened
    pipeline_data,  \* the raw factor table behind today's pipeline output
    context,        \* the algorithm's context object
    submitted,      \* the last order_optimal_portfolio call of the session
    overwrote       \* history: today's pre-open hook dropped an entry of the
                    \* mapping staged before it

vars == <<pc, schedule, pipelines, week_start, minute, pipeline_data, context,
          submitted, overwrote>>

NoFrame == [s \in {} |-> NaN]

NoSubmission ==
    [made |-> FALSE, objective |-> MaximizeAlpha(NoFrame), constraints |-> <<>>,
     accepted |-> FALSE, weights |-> [s \in {} |-> 0]]

\* algo.pipeline_output(name): the attached pipeline run on today's data.
pipeline_output(name, data) == make_pipeline(data)

\* The day's table with every missing raw factor value replaced by 1.0.
Substituted(data) ==
    LET sub(v) == IF IsNaN(v) THEN Float(1) ELSE v
    IN  [s \in DOMAIN data |->
            Row(sub(data[s].close50), sub(data[s].close200),
                sub(data[s].bull_minus_bear), sub(data[s].total_scanned_messages),
                sub(data[s].returns))]

\* A hook whose 1.0 goes into the missing raw factor values, before the score
\* is computed.
StagedContext_fill_first(data) ==
    LET output == pipeline_output("mean_reversion_example", Substituted(data))
    IN  [attrs |-> {"output", "total_score"},
         output |-> output,
         total_score |-> replace(Column(output), Float(1))]

\* What before_trading_start leaves in the context for a day's data.
StagedContext(data) ==
    LET output == fillna(pipeline_output("mean_reversion_example", data), Float(1))
    IN  [attrs |-> {"output", "total_score"},
         output |-> output,
         total_score |-> replace(Column(output), Float(1))]

\* The day tables, each with what before_trading_start makes of it.
Staged == {[data |-> data, context |-> StagedContext(data)] : data \in DayTables}

Init ==
    /\ pc = "start"
    /\ schedule = {}
    /\ pipelines = {}
    /\ week_start = TRUE
    /\ minute = 0
    /\ pipeline_data = NoFrame
    /\ context = [attrs |-> {}, output |-> NoFrame, total_score |-> NoFrame]
    /\ submitted = NoSubmission
    /\ overwrote = FALSE

\* initialize(context): called once by the host before the first trading day.
initialize ==
    /\ pc = "start"
    /\ schedule' = schedule \cup
          {[func |-> "rebalance",
            date_rule |-> [rule |-> "week_start", days_offset |-> 0],
            time_rule |-> [rule |-> "market_open", hours |-> 1, minutes |-> 30]]}
    /\ pipelines' = pipelines \cup {"mean_reversion_example"}
    /\ pc' = "overnight"
    /\ UNCHANGED <<week_start, minute, pipeline_data, context, submitted, overwrote>>

\* A hook that keeps the entries staged earlier for securities the new
\* mapping lacks.
before_trading_start_merging ==
    /\ pc = "overnight"
    /\ "mean_reversion_example" \in pipelines
    /\ \E day \in Staged :
          /\ pipeline_data' = day.data
          /\ context' =
                [day.context EXCEPT
                    !.total_score =
                        [s \in DOMAIN context.total_score \cup DOMAIN day.context.total_score |->
                            IF s \in DOMAIN day.context.total_score
                            THEN day.context.total_score[s]
                            ELSE context.total_score[s]]]
          /\ overwrote' = (DOMAIN context.total_score \ DOMAIN day.context.total_score # {})
    /\ pc' = "before_open"
    /\ UNCHANGED <<schedule, pipelines, week_start, minute, submitted>>

\* A hook that stages only when nothing is staged yet.
before_trading_start_once ==
    /\ pc = "overnight"
    /\ "mean_reversion_example" \in pipelines
    /\ \E day \in Staged :
          /\ pipeline_data' = day.data
          /\ context' = IF "total_score" \in context.attrs THEN context ELSE day.context
          /\ overwrote' = (DOMAIN context.total_score \ DOMAIN day.context.total_score # {})
    /\ pc' = "before_open"
    /\ UNCHANGED <<schedule, pipelines, week_start, minute, submitted>>

\* before_trading_start(context, data): called by the host before the open of
\* every trading day, with the day's pipeline output ready.
before_trading_start ==
    /\ pc = "overnight"
    /\ "mean_reversion_example" \in pipelines
    /\ \E day \in Staged :
          /\ pipeline_data' = day.data
          /\ context' = day.context
          /\ overwrote' = (DOMAIN context.total_score \ DOMAIN day.context.total_score # {})
    /\ pc' = "before_open"
    /\ UNCHANGED <<schedule, pipelines, week_start, minute, submitted>>

MarketOpen ==
    /\ pc = "before_open"
    /\ pc' = "open"
    /\ minute' = 0
    /\ UNCHANGED <<schedule, pipelines, week_start, pipeline_data, context, submitted,
                   overwrote>>

\* Minutes after the open at which a schedule entry runs.
Offset(entry) == entry.time_rule.hours * 60 + entry.time_rule.minutes

\* The schedule entries that still have to run today.
Due == {e \in schedule : /\ e.date_rule.rule = "week_start"
                         /\ week_start
                         /\ minute < Offset(e)}

\* An objective on the scores as they are, without the sign inversion.
objective_unnegated == MaximizeAlpha(context.total_score)

\* objective = opt.MaximizeAlpha(-context.total_score)
objective ==
    MaximizeAlpha([s \in DOMAIN context.total_score |-> Neg(context.total_score[s])])

max_gross_exposure == MaxGrossExposure(MAX_GROSS_EXPOSURE)

max_position_concentration ==
    PositionConcentration(-MAX_POSITION_CONCENTRATION, MAX_POSITION_CONCENTRATION)

dollar_neutral == DollarNeutral

\* A constraint list that leaves out dollar neutrality.
constraints_without_dollar_neutral ==
    <<max_gross_exposure, max_position_concentration>>

constraints == <<max_gross_exposure, max_position_concentration, dollar_neutral>>

\* algo.order_optimal_portfolio(objective, constraints): the platform solves
\* for the weights and places the orders, or raises when an alpha is not a
\* finite number.
order_optimal_portfolio(obj, cons) ==
    IF \A s \in DOMAIN obj.alphas : IsFinite(obj.alphas[s])
    THEN \E w \in Optimal(obj, cons) :
            submitted' = [made |-> TRUE, objective |-> obj, constraints |-> cons,
                          accepted |-> TRUE, weights |-> w]
    ELSE submitted' = [made |-> TRUE, objective |-> obj, constraints |-> cons,
                       accepted |-> FALSE, weights |-> [s \in {} |-> 0]]

\* rebalance(context, data); reading context.total_score raises when no hook
\* has set it.
rebalance ==
    /\ "total_score" \in context.attrs
    /\ order_optimal_portfolio(objective, constraints)
    /\ UNCHANGED context

\* The host runs a due schedule entry at its time.
RunScheduled ==
    /\ pc = "open"
    /\ \E e \in Due :
          /\ e.func = "rebalance"
          /\ minute' = Offset(e)
          /\ rebalance
    /\ UNCHANGED <<pc, schedule, pipelines, week_start, pipeline_data, overwrote>>

\* The session ends once nothing is due: open orders are cancelled and the
\* calendar decides whether the next trading day starts a week.
MarketClose ==
    /\ pc = "open"
    /\ Due = {}
    /\ pc' = "overnight"
    /\ minute' = 0
    /\ submitted' = NoSubmission
    /\ week_start' \in BOOLEAN
    /\ overwrote' = FALSE
    /\ UNCHANGED <<schedule, pipelines, pipeline_data, context>>

Next ==
    \/ initialize
    \/ before_trading_start
    \/ MarketOpen
    \/ RunScheduled
    \/ MarketClose

Spec == Init /\ [][Next]_vars

(***************************************************************************)
(* Properties                                                              *)
(***************************************************************************)
StagedNow == "total_score" \in context.attrs

\* The securities that pass the screen of the day's pipeline.
Eligible == securities_to_trade(pipeline_data)

MissingRaw(row) ==
    \/ IsNaN(row.close50) \/ IsNaN(row.close200) \/ IsNaN(row.bull_minus_bear)
    \/ IsNaN(row.total_scanned_messages) \/ IsNaN(row.returns)

\* The 7-day total-message average over the 7-day bull-minus-bear average.
SentimentRatio(data) ==
    Array([s \in DOMAIN data |-> Div(data[s].total_scanned_messages, data[s].bull_minus_bear)])

\* The sentiment ratios clipped to the values found at the 1st and at the 95th
\* percentile rank of the universe's ratios.
ClippedSentiment(data) ==
    LET ratio == SentimentRatio(data)
        count == Cardinality(NonNaN(ratio))
        p01 == SortedAt(ratio, count \div 100)
        p95 == SortedAt(ratio, (95 * count + 99) \div 100 - 1)
    IN  Array([s \in DOMAIN data |->
                  IF IsNaN(ratio[s]) THEN NaN
                  ELSE IF Less(ratio[s], p01) THEN p01
                  ELSE IF Less(p95, ratio[s]) THEN p95
                  ELSE ratio[s]])

TrendRatio(data) == Array([s \in DOMAIN data |-> Div(data[s].close200, data[s].close50)])

\* C1: for every security that passes the eligibility filter and whose three
\* factors (clipped sentiment ratio, return z-score, trend ratio) are finite,
\* the staged score is clipped sentiment ratio x return z-score x trend ratio,
\* with trend ratio = 200-period average / 50-period average.
C1_CompositeScore ==
    StagedNow =>
        LET sent == ClippedSentiment(pipeline_data)
            z == recent_returns_zscore(pipeline_data)
            trend == TrendRatio(pipeline_data)
        IN  \A s \in Eligible :
                (IsFinite(sent[s]) /\ IsFinite(z[s]) /\ IsFinite(trend[s])) =>
                    /\ s \in DOMAIN context.total_score
                    /\ context.total_score[s] = Mul(Mul(sent[s], z[s]), trend[s])

\* An eligible security with finite factors whose sentiment ratio was clipped
\* and whose staged score is the non-zero product.
C1_Witness ==
    /\ StagedNow
    /\ LET sent == ClippedSentiment(pipeline_data)
           z == recent_returns_zscore(pipeline_data)
           trend == TrendRatio(pipeline_data)
       IN  \E s \in Eligible :
              /\ IsFinite(sent[s]) /\ IsFinite(z[s]) /\ IsFinite(trend[s])
              /\ sent[s] # SentimentRatio(pipeline_data)[s]
              /\ context.total_score[s] = Mul(Mul(sent[s], z[s]), trend[s])
              /\ ~IsZero(context.total_score[s])
              /\ context.total_score[s] # Float(1)

\* The securities whose return z-score lies between the lo-th and the hi-th
\* percentile of the universe's z-scores (ends included).
InBand(data, lo, hi) ==
    LET z == recent_returns_zscore(data)
        from == nanpercentile(z, lo)
        to == nanpercentile(z, hi)
    IN  {s \in DOMAIN data : ~IsNaN(z[s]) /\ Leq(from, z[s]) /\ Leq(z[s], to)}

\* C2: the staged mapping holds exactly the universe members whose return
\* z-score lies in percentile band [0,25] or [75,100]; in the universe
\* {A,B,C,D} with z-scores in the order -2.0, -0.5, 0.5, 2.0 these are A and D.
C2_EligibilityBands ==
    StagedNow =>
        /\ DOMAIN context.total_score =
              InBand(pipeline_data, 0, 25) \cup InBand(pipeline_data, 75, 100)
        /\ pipeline_data = QuartileScenario => DOMAIN context.total_score = {1, 4}

C2_Witness ==
    /\ StagedNow
    /\ pipeline_data = QuartileScenario
    /\ DOMAIN context.total_score = {1, 4}

\* C3: the staged mapping, and the mapping rebalance submits, have an entry
\* only for securities that passed the day's eligibility filter.
C3_OnlyEligible ==
    /\ StagedNow => /\ DOMAIN context.total_score \subseteq Eligible
                    /\ DOMAIN context.output \subseteq Eligible
    /\ submitted.made => DOMAIN submitted.objective.alphas \subseteq Eligible

\* A rebalance on a day when a security outside both bands has a missing or a
\* zero-denominator factor.
C3_Witness ==
    /\ submitted.made
    /\ DOMAIN submitted.objective.alphas # {}
    /\ LET raw == total_score(pipeline_data)
       IN  \E s \in DOMAIN pipeline_data \ Eligible :
              /\ ~IsNaN(pipeline_data[s].returns)
              /\ ~IsFinite(raw[s])
              /\ s \notin DOMAIN submitted.objective.alphas

\* A score as it is staged: 1.0 in place of NaN and of +-inf.
Cleaned(v) == IF IsFinite(v) THEN v ELSE Float(1)

\* C4 as stated: the staged score of a security with a missing raw factor is
\* the score computed with 1.0 in place of the missing value.
C4_AsStated ==
    StagedNow =>
        LET filled == total_score(Substituted(pipeline_data))
        IN  \A s \in DOMAIN context.total_score :
                MissingRaw(pipeline_data[s]) =>
                    context.total_score[s] = Cleaned(filled[s])

\* C4 amended: a security with a missing raw factor has the staged score 1.0
\* when it is in the mapping, and is not in the mapping when its return is
\* the missing factor.
C4_MissingScoresOne ==
    StagedNow =>
        \A s \in DOMAIN pipeline_data :
            MissingRaw(pipeline_data[s]) =>
                /\ s \in DOMAIN context.total_score => context.total_score[s] = Float(1)
                /\ IsNaN(pipeline_data[s].returns) => s \notin DOMAIN context.total_score

\* A staged security with a missing factor whose remaining factors do not
\* multiply to 1.0.
C4_Witness ==
    /\ StagedNow
    /\ LET filled == total_score(Substituted(pipeline_data))
       IN  \E s \in DOMAIN context.total_score :
              /\ MissingRaw(pipeline_data[s])
              /\ context.total_score[s] = Float(1)
              /\ Cleaned(filled[s]) # Float(1)

\* C5 as stated: with a bull-minus-bear average of exactly 0 the sentiment
\* ratio counts as 1.0, so the staged score is 1.0 x z-score x trend ratio.
C5_AsStated ==
    StagedNow =>
        LET z == recent_returns_zscore(pipeline_data)
            trend == TrendRatio(pipeline_data)
        IN  \A s \in DOMAIN context.total_score :
                IsZero(pipeline_data[s].bull_minus_bear) =>
                    context.total_score[s] = Mul(Mul(Float(1), z[s]), trend[s])

\* C5 amended: with a bull-minus-bear average of exactly 0 the sentiment ratio
\* is infinite or NaN; the staged score is 1.0 when the ratio is still not
\* finite after winsorization, and otherwise (the ratio clipped to a finite
\* 95th percentile value) that value x z-score x trend ratio, 1.0 if that
\* product is not finite.
C5_ZeroSentimentDenominator ==
    StagedNow =>
        LET sent == ClippedSentiment(pipeline_data)
            z == recent_returns_zscore(pipeline_data)
            trend == TrendRatio(pipeline_data)
        IN  \A s \in DOMAIN context.total_score :
                IsZero(pipeline_data[s].bull_minus_bear) =>
                    /\ ~IsFinite(SentimentRatio(pipeline_data)[s])
                    /\ context.total_score[s] =
                          IF IsFinite(sent[s])
                          THEN Cleaned(Mul(Mul(sent[s], z[s]), trend[s]))
                          ELSE Float(1)

\* A staged security with a zero bull-minus-bear average, a sentiment ratio
\* still infinite after winsorization and z-score x trend ratio other than 1.0.
C5_Witness ==
    /\ StagedNow
    /\ LET sent == ClippedSentiment(pipeline_data)
           z == recent_returns_zscore(pipeline_data)
           trend == TrendRatio(pipeline_data)
       IN  \E s \in DOMAIN context.total_score :
              /\ IsZero(pipeline_data[s].bull_minus_bear)
              /\ IsInf(sent[s])
              /\ context.total_score[s] = Float(1)
              /\ IsFinite(Mul(z[s], trend[s]))
              /\ Mul(z[s], trend[s]) # Float(1)

\* C6: every staged score, and every alpha submitted by rebalance, is a finite
\* number.
C6_FiniteScores ==
    /\ StagedNow => \A s \in DOMAIN context.total_score : IsFinite(context.total_score[s])
    /\ submitted.made =>
          \A s \in DOMAIN submitted.objective.alphas :
              IsFinite(submitted.objective.alphas[s])

\* A rebalance on a day whose pipeline output held an infinite product (from
\* a zero denominator) and a NaN product (from a missing factor).
C6_Witness ==
    /\ submitted.made
    /\ LET raw == total_score(pipeline_data)
       IN  \E s, t \in DOMAIN submitted.objective.alphas :
              IsInf(raw[s]) /\ IsNaN(raw[t])

GrossExposure(w) == SumInt(DOMAIN w, [s \in DOMAIN w |-> Abs(w[s])])

LongExposure(w) == SumInt(DOMAIN w, [s \in DOMAIN w |-> IF w[s] > 0 THEN w[s] ELSE 0])

ShortExposure(w) == SumInt(DOMAIN w, [s \in DOMAIN w |-> IF w[s] < 0 THEN -w[s] ELSE 0])

\* Gross exposure at most 1.0, every weight within +-0.025, long exposure
\* equal to short exposure (weights in thousandths).
WithinLimits(w) ==
    /\ GrossExposure(w) <= 1000
    /\ \A s \in DOMAIN w : -25 <= w[s] /\ w[s] <= 25
    /\ LongExposure(w) = ShortExposure(w)

\* C7: every rebalance submits exactly the three constraints gross exposure
\* <= 1.0, weight in [-0.025, 0.025] and dollar neutrality, and every weight
\* mapping that meets the submitted constraints (the one the orders are placed
\* for included) is within all three limits at once.
C7_Constraints ==
    submitted.made =>
        /\ Len(submitted.constraints) = 3
        /\ {submitted.constraints[i] : i \in 1..3} =
              {MaxGrossExposure(1000), PositionConcentration(-25, 25), DollarNeutral}
        /\ submitted.accepted => WithinLimits(submitted.weights)
        /\ \A w \in [DOMAIN submitted.objective.alphas -> WeightGrid] :
              (\A i \in 1..Len(submitted.constraints) :
                    Satisfies(w, submitted.constraints[i])) => WithinLimits(w)

\* Orders placed for a long and a short position at the concentration bound.
C7_Witness ==
    /\ submitted.made
    /\ submitted.accepted
    /\ \E s, t \in DOMAIN submitted.weights :
          submitted.weights[s] = 25 /\ submitted.weights[t] = -25

\* C8: the submitted objective maximizes the sum of w_i x (-score_i), and in
\* the weights the orders are placed for a long position never has a higher
\* score than a short position.
C8_LongLowShortHigh ==
    submitted.made =>
        /\ submitted.objective.kind = "MaximizeAlpha"
        /\ submitted.objective.alphas =
              [s \in DOMAIN context.total_score |-> Neg(context.total_score[s])]
        /\ submitted.accepted =>
              \A i, j \in DOMAIN submitted.weights :
                  (submitted.weights[i] > 0 /\ submitted.weights[j] < 0) =>
                      Leq(context.total_score[i], context.total_score[j])

\* Orders placed long a security and short another of strictly higher score.
C8_Witness ==
    /\ submitted.made
    /\ submitted.accepted
    /\ \E i, j \in DOMAIN submitted.weights :
          /\ submitted.weights[i] > 0
          /\ submitted.weights[j] < 0
          /\ Less(context.total_score[i], context.total_score[j])

\* The composite score mapping of a day's raw factor table.
Composite(data) ==
    LET raw == total_score(data)
    IN  [s \in securities_to_trade(data) |-> Cleaned(raw[s])]

\* C9: the staged mapping is the composite score mapping of the day's raw
\* factor input, whatever was staged before; nothing of an earlier mapping
\* survives.
C9_FunctionOfInput ==
    StagedNow =>
        /\ context.total_score = Composite(pipeline_data)
        /\ DOMAIN context.output = DOMAIN context.total_score

\* A hook that replaced a mapping holding an entry the new mapping lacks.
C9_Witness ==
    /\ StagedNow
    /\ overwrote
    /\ context.total_score # NoFrame
    /\ context.total_score = Composite(pipeline_data)

\* C10: a rebalance runs only in the session of a day whose pre-open hook has
\* run, submits the negated mapping staged from that day's pipeline data, and
\* leaves the staged mapping unchanged.
C10_RebalanceUsesTodaysStaging ==
    /\ [](submitted.made =>
            /\ pc = "open"
            /\ minute = 90
            /\ week_start
            /\ StagedNow
            /\ LET staged == Composite(pipeline_data)
               IN  submitted.objective.alphas =
                      [s \in DOMAIN staged |-> Neg(staged[s])])
    /\ [][(~submitted.made /\ submitted'.made) => context' = context]_vars

\* A rebalance after a hook that replaced an earlier mapping.
C10_Witness ==
    /\ submitted.made
    /\ submitted.accepted
    /\ overwrote
    /\ DOMAIN submitted.objective.alphas # {}

====
